---- MODULE Spec2Model ----
(***************************************************************************)
(* A model of atomate2's VASP file utilities:                               *)
(*   src/src/atomate2/vasp/file.py    copy_vasp_outputs,                    *)
(*                                    get_largest_relax_extension           *)
(*   src/src/atomate2/vasp/inputs.py  write_vasp_input_set                  *)
(*   src/tests/vasp/conftest.py       fake_run_vasp and its checks          *)
(*                                                                         *)
(* File names and dotted import paths are sequences of lexemes: a stem     *)
(* such as "INCAR" or "mypackage" is one lexeme, and ".", "relax", "gz"    *)
(* and each decimal digit are lexemes of their own, so that                *)
(* "vasprun.xml.relax10.gz" is                                             *)
(*   <<"vasprun", ".", "xml", ".", "relax", "1", "0", ".", "gz">>.         *)
(* No stem contains a ".", a digit, "relax" or "gz", so the string         *)
(* operations of the code (glob, re.search, str.replace, rsplit, in) are   *)
(* decided on lexeme boundaries exactly as on characters.                  *)
(***************************************************************************)
EXTENDS Integers, Sequences, FiniteSets, TLC

VARIABLES
    pc,                     \* position of the running function
    raised,                 \* the exception that left the function, or "none"
    src_dir,                \* the names in the source directory
    cwd,                    \* the current directory: name -> file content
    cwd0,                   \* the current directory when the function was called
    additional_vasp_files,  \* argument of copy_vasp_outputs
    contcar_to_poscar,      \* argument of copy_vasp_outputs
    relax_ext,              \* local of copy_vasp_outputs / result of get_largest_relax_extension
    required_files,         \* local of copy_vasp_outputs
    optional_files,         \* local of copy_vasp_outputs
    wargs,                  \* arguments of write_vasp_input_set
    vis_cls,                \* local of write_vasp_input_set: <<>> or <<[module, name]>>
    calls,                  \* the calls write_vasp_input_set has made on the input set class
    fargs,                  \* arguments of fake_run_vasp and the reference directory
    steps                   \* the steps fake_run_vasp has performed, in order

vars == <<pc, raised, src_dir, cwd, cwd0, additional_vasp_files, contcar_to_poscar,
          relax_ext, required_files, optional_files, wargs, vis_cls, calls, fargs, steps>>

copyVars == <<additional_vasp_files, contcar_to_poscar, required_files, optional_files>>
writeVars == <<wargs, vis_cls, calls>>
fakeVars == <<fargs, steps>>

----------------------------------------------------------------------------
(* Strings as sequences of lexemes *)

Digits == {"0", "1", "2", "3", "4", "5", "6", "7", "8", "9"}

DOT == <<".">>
GZ == <<".", "gz">>
RELAX == <<".", "relax">>

\* s[i..] starts with sub
StartsAt(s, i, sub) ==
    /\ i >= 1
    /\ i + Len(sub) - 1 <= Len(s)
    /\ SubSeq(s, i, i + Len(sub) - 1) = sub

\* Python: sub in s
Contains(s, sub) == \E i \in 1..Len(s) : StartsAt(s, i, sub)

\* Python: s.endswith(sub)
EndsWith(s, sub) == Len(s) >= Len(sub) /\ StartsAt(s, Len(s) - Len(sub) + 1, sub)

\* Python: s.replace(old, ""), every non-overlapping occurrence, left to right
RECURSIVE Remove(_, _)
Remove(s, old) ==
    IF s = <<>> \/ old = <<>> THEN s
    ELSE IF StartsAt(s, 1, old) THEN Remove(SubSeq(s, Len(old) + 1, Len(s)), old)
    ELSE <<Head(s)>> \o Remove(Tail(s), old)

\* Python: int(x) for a string of decimal digits
DigitVal(d) ==
    CASE d = "0" -> 0 [] d = "1" -> 1 [] d = "2" -> 2 [] d = "3" -> 3 [] d = "4" -> 4
      [] d = "5" -> 5 [] d = "6" -> 6 [] d = "7" -> 7 [] d = "8" -> 8 [] d = "9" -> 9

RECURSIVE int(_)
int(x) == IF x = <<>> THEN 0 ELSE 10 * int(SubSeq(x, 1, Len(x) - 1)) + DigitVal(x[Len(x)])

\* Python: str(n) for n >= 0
DigitOf(n) == CHOOSE d \in Digits : DigitVal(d) = n

RECURSIVE str(_)
str(n) == IF n < 10 THEN <<DigitOf(n)>> ELSE str(n \div 10) \o <<DigitOf(n % 10)>>

\* the longest run of digits of s that starts at position i (regex \d+, greedy)
RECURSIVE DigitRun(_, _)
DigitRun(s, i) ==
    IF i <= Len(s) /\ s[i] \in Digits THEN <<s[i]>> \o DigitRun(s, i + 1) ELSE <<>>

\* an arbitrary but fixed enumeration of a finite set
RECURSIVE SetToSeq(_)
SetToSeq(S) == IF S = {} THEN <<>> ELSE LET x == CHOOSE y \in S : TRUE IN <<x>> \o SetToSeq(S \ {x})

Range(s) == {s[i] : i \in 1..Len(s)}

----------------------------------------------------------------------------
(* get_largest_relax_extension, file.py 102-136 *)

\* file_client.glob(Path(directory) / "*.relax*"): the names holding ".relax"
glob_relax(directory) == {name \in directory : Contains(name, RELAX)}

\* the positions where the pattern r".relax(\d+)" matches: the unescaped "." takes
\* any one character (the end of the lexeme before, or the lexeme "." itself),
\* then "relax", then one digit or more
RegexMatchesAt(name, i) ==
    /\ i >= 2
    /\ i + 1 <= Len(name)
    /\ name[i] = "relax"
    /\ name[i + 1] \in Digits

re_search_positions(name) == {i \in 1..Len(name) : RegexMatchesAt(name, i)}

\* re.search(r".relax(\d+)", name): <<>> for None, else <<group(1)>> of the
\* leftmost match
re_search(name) ==
    IF re_search_positions(name) = {} THEN <<>>
    ELSE LET i == CHOOSE p \in re_search_positions(name) :
                      \A q \in re_search_positions(name) : p <= q
         IN <<DigitRun(name, i + 1)>>

\* max(numbers, key=lambda x: int(x)) returns the first maximal element of the
\* list; the list is in glob order, which the file system decides, so every
\* element of maximal key is a possible result
max_by_int(numbers) == {x \in numbers : \A y \in numbers : int(y) <= int(x)}

\* the possible outcomes of get_largest_relax_extension(directory):
\* [exc |-> exception or "none", value |-> returned string]
get_largest_relax_extension(directory) ==
    LET relax_files == glob_relax(directory)
    IN  IF relax_files = {} THEN {[exc |-> "none", value |-> <<>>]}
        ELSE IF \E file \in relax_files : re_search(file) = <<>>
             \* None.group(1)
             THEN {[exc |-> "AttributeError", value |-> <<>>]}
        ELSE LET numbers == {re_search(file)[1] : file \in relax_files}
             IN  {[exc |-> "none", value |-> RELAX \o max_relax] :
                     max_relax \in max_by_int(numbers)}

----------------------------------------------------------------------------
(* Directories.  The source directory is the set of its names; the content *)
(* of the source file called n is [data |-> n, gz |-> n ends in ".gz"].    *)
(* The current directory maps each name to the content it holds.           *)

SrcContent(name) == [data |-> name, gz |-> EndsWith(name, GZ)]

Put(dir, name, content) ==
    [x \in DOMAIN dir \cup {name} |-> IF x = name THEN content ELSE dir[x]]

Del(dir, name) == [x \in DOMAIN dir \ {name} |-> dir[x]]

\* file_client.listdir(src_dir): the names, in the order the file system gives
listdir(directory) == SetToSeq(directory)

\* atomate2.common.file.get_zfile(directory_listing, base_name, allow_missing):
\* the first entry called base_name or base_name + ".gz"; <<>> when there is
\* none (None with allow_missing, FileNotFoundError without)
get_zfile(directory_listing, base_name) ==
    LET hits == {i \in 1..Len(directory_listing) :
                    \/ directory_listing[i] = base_name
                    \/ directory_listing[i] = base_name \o GZ}
    IN  IF hits = {} THEN <<>>
        ELSE <<directory_listing[CHOOSE i \in hits : \A j \in hits : i <= j]>>

\* atomate2.common.file.copy_files(src_dir, include_files=...): each file is
\* copied into the current directory under its own name
RECURSIVE copy_files(_, _)
copy_files(dir, include_files) ==
    IF include_files = <<>> THEN dir
    ELSE copy_files(Put(dir, Head(include_files), SrcContent(Head(include_files))),
                    Tail(include_files))

\* atomate2.common.file.gunzip_files(include_files=..., allow_missing=True):
\* each listed file of the current directory that is gzipped is replaced by
\* its uncompressed content under the name without the final ".gz"
RECURSIVE gunzip_files(_, _)
gunzip_files(dir, include_files) ==
    IF include_files = <<>> THEN dir
    ELSE LET f == Head(include_files)
             out == SubSeq(f, 1, Len(f) - Len(GZ))
         IN  IF EndsWith(f, GZ) /\ f \in DOMAIN dir
             THEN gunzip_files(Put(Del(dir, f), out, [data |-> dir[f].data, gz |-> FALSE]),
                               Tail(include_files))
             ELSE gunzip_files(dir, Tail(include_files))

\* atomate2.common.file.rename_files(filenames, allow_missing=...): the
\* renames are done one after the other; a missing file is skipped with
\* allow_missing and is a FileNotFoundError without.  filenames is a
\* sequence of <<old, new>>.  The result is [exc, dir].
RECURSIVE rename_files(_, _, _)
rename_files(dir, filenames, allow_missing) ==
    IF filenames = <<>> THEN [exc |-> "none", dir |-> dir]
    ELSE LET old == Head(filenames)[1]
             new == Head(filenames)[2]
         IN  IF old \in DOMAIN dir
             THEN rename_files(IF old = new THEN dir ELSE Put(Del(dir, old), new, dir[old]),
                               Tail(filenames), allow_missing)
             ELSE IF allow_missing THEN rename_files(dir, Tail(filenames), allow_missing)
             ELSE [exc |-> "FileNotFoundError", dir |-> dir]

----------------------------------------------------------------------------
(* copy_vasp_outputs, file.py 19-99 *)

INCAR == <<"INCAR">>
OUTCAR == <<"OUTCAR">>
CONTCAR == <<"CONTCAR">>
VASPRUN == <<"vasprun", ".", "xml">>
KPOINTS == <<"KPOINTS">>
POSCAR == <<"POSCAR">>
POTCAR == <<"POTCAR">>
POTCAR_SPEC == <<"POTCAR", ".", "spec">>
CHGCAR == <<"CHGCAR">>

\* line 59
files(additional) == <<INCAR, OUTCAR, CONTCAR, VASPRUN>> \o additional

\* line 65
optional_names(ext) == <<POTCAR, POTCAR_SPEC, KPOINTS \o ext>>

\* lines 64-68: the optional files that are found, in the order looked up
RECURSIVE find_optional(_, _)
find_optional(directory_listing, names) ==
    IF names = <<>> THEN <<>>
    ELSE get_zfile(directory_listing, Head(names)) \o find_optional(directory_listing, Tail(names))

\* line 71
no_potcar(optional) == {i \in 1..Len(optional) : Contains(optional[i], POTCAR)} = {}

\* line 77
copy_include_files(required, optional) == required \o optional

\* a gunzip that forgets the optional files
gunzip_required_only(required, optional) == required

\* line 82
gunzip_include_files(required, optional) == required \o optional

\* line 89
all_files(required, optional) == optional \o required

\* a rename that leaves the relax extension in the new name
files_to_rename_keeping_ext(all, ext) ==
    [i \in 1..Len(all) |-> <<Remove(all[i], GZ), Remove(all[i], GZ)>>]

\* lines 90-93: old name -> new name
files_to_rename(all, ext) ==
    [i \in 1..Len(all) |-> <<Remove(all[i], GZ), Remove(Remove(all[i], ext), GZ)>>]

\* the rename the other way round
poscar_to_contcar == <<<<POSCAR, CONTCAR>>>>

\* line 97: old name, new name
contcar_rename == <<<<CONTCAR, POSCAR>>>>

\* line 55
cvo_get_relax_ext ==
    /\ pc = "cvo_relax_ext"
    /\ \E r \in get_largest_relax_extension(src_dir) :
          IF r.exc = "none"
          THEN /\ relax_ext' = r.value
               /\ pc' = "cvo_required"
               /\ raised' = raised
          ELSE /\ raised' = r.exc
               /\ pc' = "raised"
               /\ relax_ext' = relax_ext
    /\ UNCHANGED <<src_dir, cwd, cwd0, copyVars, writeVars, fakeVars>>

\* lines 56-60
cvo_find_required ==
    /\ pc = "cvo_required"
    /\ LET directory_listing == listdir(src_dir)
           wanted == files(additional_vasp_files)
           found == [i \in 1..Len(wanted) |-> get_zfile(directory_listing, wanted[i] \o relax_ext)]
       IN  IF \E i \in 1..Len(wanted) : found[i] = <<>>
           THEN /\ raised' = "FileNotFoundError"
                /\ pc' = "raised"
                /\ required_files' = required_files
           ELSE /\ required_files' = [i \in 1..Len(wanted) |-> found[i][1]]
                /\ pc' = "cvo_optional"
                /\ raised' = raised
    /\ UNCHANGED <<src_dir, cwd, cwd0, relax_ext, additional_vasp_files, contcar_to_poscar,
                   optional_files, writeVars, fakeVars>>

\* lines 64-68
cvo_find_optional ==
    /\ pc = "cvo_optional"
    /\ optional_files' = find_optional(listdir(src_dir), optional_names(relax_ext))
    /\ pc' = "cvo_check_potcar"
    /\ UNCHANGED <<raised, src_dir, cwd, cwd0, relax_ext, additional_vasp_files,
                   contcar_to_poscar, required_files, writeVars, fakeVars>>

\* lines 70-72
cvo_check_potcar ==
    /\ pc = "cvo_check_potcar"
    /\ IF no_potcar(optional_files)
       THEN raised' = "FileNotFoundError" /\ pc' = "raised"
       ELSE raised' = raised /\ pc' = "cvo_copy"
    /\ UNCHANGED <<src_dir, cwd, cwd0, relax_ext, copyVars, writeVars, fakeVars>>

\* lines 74-79
cvo_copy_files ==
    /\ pc = "cvo_copy"
    /\ cwd' = copy_files(cwd, copy_include_files(required_files, optional_files))
    /\ pc' = "cvo_gunzip"
    /\ UNCHANGED <<raised, src_dir, cwd0, relax_ext, copyVars, writeVars, fakeVars>>

\* lines 81-85
cvo_gunzip_files ==
    /\ pc = "cvo_gunzip"
    /\ cwd' = gunzip_files(cwd, gunzip_include_files(required_files, optional_files))
    /\ pc' = "cvo_rename"
    /\ UNCHANGED <<raised, src_dir, cwd0, relax_ext, copyVars, writeVars, fakeVars>>

\* lines 87-94
cvo_rename_relax ==
    /\ pc = "cvo_rename"
    /\ IF relax_ext # <<>>
       THEN cwd' = rename_files(cwd,
                       files_to_rename(all_files(required_files, optional_files), relax_ext),
                       TRUE).dir
       ELSE cwd' = cwd
    /\ pc' = "cvo_poscar"
    /\ UNCHANGED <<raised, src_dir, cwd0, relax_ext, copyVars, writeVars, fakeVars>>

\* lines 96-97
cvo_contcar_to_poscar ==
    /\ pc = "cvo_poscar"
    /\ LET r == IF contcar_to_poscar
                THEN rename_files(cwd, contcar_rename, FALSE)
                ELSE [exc |-> "none", dir |-> cwd]
       IN  /\ cwd' = r.dir
           /\ IF r.exc = "none"
              THEN pc' = "done" /\ raised' = raised
              ELSE pc' = "raised" /\ raised' = r.exc
    /\ UNCHANGED <<src_dir, cwd0, relax_ext, copyVars, writeVars, fakeVars>>

----------------------------------------------------------------------------
(* The directories and arguments the functions are run on *)

\* the largest relaxation number a source directory holds
MaxRelax == 10

RelaxExt(n) == RELAX \o str(n)

\* names that hold ".relax" in other ways than as a relax extension
RELAXED == <<"POSCAR", ".", "relax", "ed">>                      \* POSCAR.relaxed
PRERELAX == <<"pre", "relax", "9", ".", "relax", "1">>           \* prerelax9.relax1
ZERO_PADDED == <<"CHGCAR", ".", "relax", "0", "2", ".", "gz">>   \* CHGCAR.relax02.gz

OddNames == {RELAXED, PRERELAX, ZERO_PADDED, OUTCAR}

\* get_largest_relax_extension is run on every directory made of INCAR.relax<n>
\* files with n up to MaxRelax and of the odd names
RelaxDirectories ==
    {runs \cup odd : runs \in SUBSET {INCAR \o RelaxExt(n) : n \in 1..MaxRelax},
                     odd \in SUBSET OddNames}

NoFiles == [x \in {} |-> [data |-> <<>>, gz |-> FALSE]]

InitRelax ==
    /\ pc = "glre"
    /\ src_dir \in RelaxDirectories
    /\ raised = "none"
    /\ cwd = NoFiles
    /\ cwd0 = NoFiles
    /\ additional_vasp_files = <<>>
    /\ contcar_to_poscar = TRUE
    /\ relax_ext = <<>>
    /\ required_files = <<>>
    /\ optional_files = <<>>
    /\ wargs = <<>>
    /\ vis_cls = <<>>
    /\ calls = <<>>
    /\ fargs = <<>>
    /\ steps = <<>>

\* a call of get_largest_relax_extension(src_dir), lines 130-136
glre_call ==
    /\ pc = "glre"
    /\ \E r \in get_largest_relax_extension(src_dir) :
          /\ relax_ext' = r.value
          /\ raised' = r.exc
          /\ pc' = IF r.exc = "none" THEN "done" ELSE "raised"
    /\ UNCHANGED <<src_dir, cwd, cwd0, copyVars, writeVars, fakeVars>>

NextRelax == glre_call

SpecRelax == InitRelax /\ [][NextRelax]_vars

----------------------------------------------------------------------------
(* The runs of copy_vasp_outputs *)

\* the files every relaxation run writes; POTCAR files carry no extension
RunFiles == {INCAR, OUTCAR, CONTCAR, VASPRUN, KPOINTS, CHGCAR, POSCAR}

\* the numbers of relaxation runs a calculation directory holds
RunCounts == {0, 1, 2, MaxRelax}

\* the files that are missing from the latest run: none, any one, or both
\* POTCAR files
AbsentChoices ==
    {{}} \cup {{f} : f \in RunFiles \cup {POTCAR, POTCAR_SPEC}} \cup {{POTCAR, POTCAR_SPEC}}

\* the files of the latest run that are gzipped: none, one, some, all
ZippedChoices ==
    {{}, {VASPRUN}, {VASPRUN, POTCAR}, {CONTCAR, KPOINTS, POTCAR_SPEC},
     RunFiles \cup {POTCAR, POTCAR_SPEC}}

OddChoices == {{}, {RELAXED}, {PRERELAX}}

AdditionalChoices == {<<>>, <<CHGCAR>>, <<POSCAR>>}

\* the extension of run n of count: none when the directory holds one calculation
ExtOf(n) == IF n = 0 THEN <<>> ELSE RelaxExt(n)

\* a directory with `count` relaxation runs: the run before the latest is
\* complete and plain, the latest lacks `absent` and has `zipped` gzipped
SourceDirectory(count, absent, zipped, odd) ==
    LET last == {(f \o ExtOf(count)) \o (IF f \in zipped THEN GZ ELSE <<>>) :
                     f \in RunFiles \ absent}
        before == IF count >= 2 THEN {f \o ExtOf(count - 1) : f \in RunFiles} ELSE {}
        potcars == {f \o (IF f \in zipped THEN GZ ELSE <<>>) : f \in {POTCAR, POTCAR_SPEC} \ absent}
    IN  last \cup before \cup potcars \cup odd

Stale(name) == [data |-> <<"stale">> \o name, gz |-> EndsWith(name, GZ)]

\* a current directory that already holds files of an earlier job
StaleNames == {INCAR, KPOINTS, POSCAR, CONTCAR, OUTCAR \o RelaxExt(1), VASPRUN \o GZ}

CwdChoices == {NoFiles, [name \in StaleNames |-> Stale(name)]}

InitCopy ==
    /\ pc = "cvo_relax_ext"
    /\ raised = "none"
    /\ \E count \in RunCounts, absent \in AbsentChoices, zipped \in ZippedChoices,
          odd \in OddChoices :
          src_dir = SourceDirectory(count, absent, zipped, odd)
    /\ cwd \in CwdChoices
    /\ cwd0 = cwd
    /\ additional_vasp_files \in AdditionalChoices
    /\ contcar_to_poscar \in BOOLEAN
    /\ relax_ext = <<>>
    /\ required_files = <<>>
    /\ optional_files = <<>>
    /\ wargs = <<>>
    /\ vis_cls = <<>>
    /\ calls = <<>>
    /\ fargs = <<>>
    /\ steps = <<>>

NextCopy ==
    \/ cvo_get_relax_ext
    \/ cvo_find_required
    \/ cvo_find_optional
    \/ cvo_check_potcar
    \/ cvo_copy_files
    \/ cvo_gunzip_files
    \/ cvo_rename_relax
    \/ cvo_contcar_to_poscar

SpecCopy == InitCopy /\ [][NextCopy]_vars

----------------------------------------------------------------------------------------------------------------------------------------
(* write_vasp_input_set, inputs.py 16-61 *)

\* the default module of line 47, "pymatgen.io.vasp.sets"
PYMATGEN_SETS == <<"pymatgen", ".", "io", ".", "vasp", ".", "sets">>

\* The modules the interpreter can import, each with its attributes; an
\* attribute is a class, with or without a from_prev method.  The pymatgen
\* sets have no from_prev (line 54), mypackage.mymodule.InputSet has one.
Importable ==
    {PYMATGEN_SETS, <<"mypackage">>, <<"mypackage", ".", "mymodule">>}

Attributes(module) ==
    IF module = PYMATGEN_SETS THEN {<<"MPStaticSet">>, <<"MPRelaxSet">>}
    ELSE IF module = <<"mypackage", ".", "mymodule">> THEN {<<"InputSet">>, <<"PlainSet">>}
    ELSE {}

\* hasattr(vis_cls, "from_prev")
hasattr_from_prev(cls) ==
    /\ cls.module = <<"mypackage", ".", "mymodule">>
    /\ cls.name = <<"InputSet">>

\* lines 41-42: None is <<>>, a dict d is <<d>>
or_empty(kwargs) == IF kwargs = <<>> THEN {} ELSE kwargs[1]

\* input_set.rsplit(".", 1) for a string that holds a ".": what is before the
\* last "." and what is after it
RECURSIVE rsplit(_, _)
rsplit(s, after) ==
    IF s[Len(s)] = "." THEN <<SubSeq(s, 1, Len(s) - 1), after>>
    ELSE rsplit(SubSeq(s, 1, Len(s) - 1), <<s[Len(s)]>> \o after)

\* lines 44-47: [module, name]
split_input_set(input_set) ==
    IF Contains(input_set, DOT)
    THEN LET parts == rsplit(input_set, <<>>) IN [module |-> parts[1], name |-> parts[2]]
    ELSE [module |-> PYMATGEN_SETS, name |-> input_set]

\* importlib.import_module(module): the exception it raises, or "none"
import_module(module) ==
    IF module = <<>> THEN "ValueError"                \* Empty module name
    ELSE IF module[1] = "." THEN "TypeError"          \* relative import without package
    ELSE IF module \in Importable THEN "none"
    ELSE "ModuleNotFoundError"

\* line 50: getattr(importlib.import_module(module), input_set)
import_class(module, name) ==
    IF import_module(module) # "none" THEN import_module(module)
    ELSE IF name \in Attributes(module) THEN "none"
    ELSE "AttributeError"

\* line 51: the exceptions the except clause takes
caught(exc) == exc \in {"ModuleNotFoundError", "AttributeError", "ImportError"}

\* the from_prev argument alone decides
from_prev_unchecked(from_prev, cls) == from_prev

\* line 55
use_from_prev(from_prev, cls) == from_prev /\ hasattr_from_prev(cls)

\* line 56: vis_cls.from_prev(".", structure=structure, **input_set_kwargs)
from_prev_call(cls, structure, input_set_kwargs) ==
    [op |-> "from_prev", cls |-> cls, args |-> <<".">>,
     kwargs |-> {<<"structure", structure>>} \cup input_set_kwargs]

\* line 58: vis_cls(structure, **input_set_kwargs)
constructor_call(cls, structure, input_set_kwargs) ==
    [op |-> "__init__", cls |-> cls, args |-> <<structure>>, kwargs |-> input_set_kwargs]

\* line 61: vis.write_input(".", **write_input_kwargs)
write_input_call(cls, write_input_kwargs) ==
    [op |-> "write_input", cls |-> cls, args |-> <<".">>, kwargs |-> write_input_kwargs]

\* lines 41-52
wvis_import ==
    /\ pc = "wvis_import"
    /\ LET target == split_input_set(wargs.input_set)
           exc == import_class(target.module, target.name)
       IN  /\ wargs' = [wargs EXCEPT !.input_set_kwargs = <<or_empty(@)>>,
                                     !.write_input_kwargs = <<or_empty(@)>>,
                                     !.input_set = target.name]
           /\ IF exc = "none"
              THEN /\ vis_cls' = <<target>>
                   /\ pc' = "wvis_build"
                   /\ raised' = raised
              ELSE /\ vis_cls' = vis_cls
                   /\ pc' = "raised"
                   /\ raised' = IF caught(exc) THEN "ImportError" ELSE exc
    /\ UNCHANGED <<src_dir, cwd, cwd0, relax_ext, copyVars, calls, fakeVars>>

\* lines 55-58
wvis_build ==
    /\ pc = "wvis_build"
    /\ calls' = Append(calls,
                    IF use_from_prev(wargs.from_prev, vis_cls[1])
                    THEN from_prev_call(vis_cls[1], wargs.structure, wargs.input_set_kwargs[1])
                    ELSE constructor_call(vis_cls[1], wargs.structure, wargs.input_set_kwargs[1]))
    /\ pc' = "wvis_write"
    /\ UNCHANGED <<raised, src_dir, cwd, cwd0, relax_ext, copyVars, wargs, vis_cls, fakeVars>>

\* lines 60-61
wvis_write ==
    /\ pc = "wvis_write"
    /\ calls' = Append(calls, write_input_call(vis_cls[1], wargs.write_input_kwargs[1]))
    /\ pc' = "done"
    /\ UNCHANGED <<raised, src_dir, cwd, cwd0, relax_ext, copyVars, wargs, vis_cls, fakeVars>>

\* the longest input_set string, in lexemes
MaxPathLen == 5

PathLexemes == {".", "mypackage", "mymodule", "InputSet"}

InputSetStrings ==
    UNION {[1..n -> PathLexemes] : n \in 1..MaxPathLen}
    \cup {<<"MPStaticSet">>, <<"NoSuchSet">>, <<"mypackage", ".", "mymodule", ".", "PlainSet">>}

KwargsChoices == {<<>>, <<{<<"potcar_spec", "True">>}>>}

InitWrite ==
    /\ pc = "wvis_import"
    /\ raised = "none"
    /\ \E input_set \in InputSetStrings, isk \in KwargsChoices, wik \in KwargsChoices,
          from_prev \in BOOLEAN :
          wargs = [structure |-> "Si", input_set |-> input_set, input_set_kwargs |-> isk,
                   write_input_kwargs |-> wik, from_prev |-> from_prev,
                   given |-> [input_set |-> input_set, input_set_kwargs |-> isk,
                              write_input_kwargs |-> wik]]
    /\ vis_cls = <<>>
    /\ calls = <<>>
    /\ src_dir = {}
    /\ cwd = NoFiles
    /\ cwd0 = NoFiles
    /\ additional_vasp_files = <<>>
    /\ contcar_to_poscar = TRUE
    /\ relax_ext = <<>>
    /\ required_files = <<>>
    /\ optional_files = <<>>
    /\ fargs = <<>>
    /\ steps = <<>>

NextWrite == wvis_import \/ wvis_build \/ wvis_write

SpecWrite == InitWrite /\ [][NextWrite]_vars

----------------------------------------------------------------------------
(* fake_run_vasp, conftest.py 95-211 *)

\* line 7
vfiles == {"incar", "kpoints", "potcar", "poscar"}

\* What pymatgen reads from a file is its data; two files parse to equal
\* values (settings, k-points, atoms, symbols) when their data are equal.
\* ref_path/inputs holds every input file, with these contents.
RefInput(name) == [data |-> <<"ref">> \o name, gz |-> FALSE]

UserInput(name) == [data |-> <<"user">> \o name, gz |-> FALSE]

RefOutput(name) == [data |-> <<"out">> \o name, gz |-> FALSE]

\* lines 144-152: the exception check_incar raises, or "none"
check_incar(dir, incar_settings) ==
    IF INCAR \notin DOMAIN dir THEN "FileNotFoundError"
    ELSE IF \E p \in incar_settings : dir[INCAR] # RefInput(INCAR) THEN "ValueError"
    ELSE "none"

\* lines 155-161
check_kpoints(dir) ==
    IF KPOINTS \notin DOMAIN dir THEN "FileNotFoundError"
    ELSE IF dir[KPOINTS] # RefInput(KPOINTS) THEN "ValueError"
    ELSE "none"

\* lines 164-170
check_poscar(dir) ==
    IF POSCAR \notin DOMAIN dir THEN "FileNotFoundError"
    ELSE IF dir[POSCAR] # RefInput(POSCAR) THEN "ValueError"
    ELSE "none"

\* lines 173-187; the reference of both comparisons is ref_path/inputs/POTCAR
check_potcar(dir) ==
    IF POTCAR \in DOMAIN dir
    THEN IF dir[POTCAR] # RefInput(POTCAR) THEN "ValueError" ELSE "none"
    ELSE IF POTCAR_SPEC \in DOMAIN dir
    THEN IF dir[POTCAR_SPEC] # RefInput(POTCAR_SPEC) THEN "ValueError" ELSE "none"
    ELSE "FileNotFoundError"

\* lines 191-199
cleared_files == {INCAR, KPOINTS, POSCAR, POTCAR, CHGCAR, OUTCAR, VASPRUN}

\* lines 190-202
clear_vasp_inputs(dir) == [n \in DOMAIN dir \ cleared_files |-> dir[n]]

\* lines 205-211, the copy_vasp_outputs of conftest.py: outputs is the set of
\* [name, is_file] entries of ref_path/outputs
conftest_copy_vasp_outputs(dir, outputs) ==
    LET copied == {e.name : e \in {o \in outputs : o.is_file}}
    IN  [n \in DOMAIN dir \cup copied |-> IF n \in copied THEN RefOutput(n) ELSE dir[n]]

\* clearing comes first
frv_order_clear_first == <<"clear", "incar", "kpoints", "poscar", "potcar", "copy">>

\* lines 121-138: the order of the steps of fake_run_vasp
frv_order == <<"incar", "kpoints", "poscar", "potcar", "clear", "copy">>

\* the step that follows `step`
frv_after(step) ==
    LET i == CHOOSE j \in 1..Len(frv_order) : frv_order[j] = step
    IN  IF i < Len(frv_order) THEN frv_order[i + 1] ELSE "done"

\* a check of lines 121-131: skipped when `what` is not in check_inputs, and
\* the end of the call when it raises
frv_check(step, exc) ==
    /\ pc = step
    /\ IF step \in fargs.check_inputs
       THEN /\ steps' = Append(steps, step)
            /\ IF exc = "none"
               THEN pc' = frv_after(step) /\ raised' = raised
               ELSE pc' = "raised" /\ raised' = exc
       ELSE /\ steps' = steps
            /\ pc' = frv_after(step)
            /\ raised' = raised
    /\ UNCHANGED <<src_dir, cwd, cwd0, relax_ext, copyVars, writeVars, fargs>>

\* lines 121-122
frv_check_incar == frv_check("incar", check_incar(cwd, fargs.incar_settings))

\* lines 124-125
frv_check_kpoints == frv_check("kpoints", check_kpoints(cwd))

\* lines 127-128
frv_check_poscar == frv_check("poscar", check_poscar(cwd))

\* lines 130-131
frv_check_potcar == frv_check("potcar", check_potcar(cwd))

\* lines 135-136
frv_clear_inputs ==
    /\ pc = "clear"
    /\ IF fargs.clear_inputs
       THEN cwd' = clear_vasp_inputs(cwd) /\ steps' = Append(steps, "clear")
       ELSE cwd' = cwd /\ steps' = steps
    /\ pc' = frv_after("clear")
    /\ UNCHANGED <<raised, src_dir, cwd0, relax_ext, copyVars, writeVars, fargs>>

\* line 138
frv_copy_outputs ==
    /\ pc = "copy"
    /\ cwd' = conftest_copy_vasp_outputs(cwd, fargs.outputs)
    /\ steps' = Append(steps, "copy")
    /\ pc' = frv_after("copy")
    /\ UNCHANGED <<raised, src_dir, cwd0, relax_ext, copyVars, writeVars, fargs>>

File(name) == [name |-> name, is_file |-> TRUE]

Directory(name) == [name |-> name, is_file |-> FALSE]

\* the contents of ref_path/outputs
OutputsChoices ==
    {{File(OUTCAR), File(CONTCAR), File(VASPRUN), Directory(<<"logs">>)},
     {File(OUTCAR), File(INCAR), File(POTCAR_SPEC), File(VASPRUN \o GZ)}}

\* the input files the job has written before VASP is run
WrittenInputs ==
    {f \in [{INCAR, KPOINTS, POSCAR, POTCAR, POTCAR_SPEC} -> {"ref", "user", "absent"}] :
        f[INCAR] # "absent" /\ f[POSCAR] # "absent"}

WorkingDirectory(f) ==
    [n \in {m \in DOMAIN f : f[m] # "absent"} \cup {<<"custodian", ".", "json">>} |->
        IF n \notin DOMAIN f THEN UserInput(n)
        ELSE IF f[n] = "ref" THEN RefInput(n) ELSE UserInput(n)]

InitFake ==
    /\ pc = frv_order[1]
    /\ raised = "none"
    /\ \E f \in WrittenInputs : cwd = WorkingDirectory(f)
    /\ cwd0 = cwd
    /\ \E outputs \in OutputsChoices, check_inputs \in SUBSET vfiles,
          clear_inputs \in BOOLEAN, incar_settings \in {{}, {"NSW"}} :
          fargs = [outputs |-> outputs, check_inputs |-> check_inputs,
                   clear_inputs |-> clear_inputs, incar_settings |-> incar_settings]
    /\ steps = <<>>
    /\ src_dir = {}
    /\ additional_vasp_files = <<>>
    /\ contcar_to_poscar = TRUE
    /\ relax_ext = <<>>
    /\ required_files = <<>>
    /\ optional_files = <<>>
    /\ wargs = <<>>
    /\ vis_cls = <<>>
    /\ calls = <<>>

NextFake ==
    \/ frv_check_incar
    \/ frv_check_kpoints
    \/ frv_check_poscar
    \/ frv_check_potcar
    \/ frv_clear_inputs
    \/ frv_copy_outputs

SpecFake == InitFake /\ [][NextFake]_vars

----------------
(* What the claims speak of *)

\* the positions of a literal ".relax" followed by a digit
LiteralPositions(name) ==
    {i \in 1..Len(name) : StartsAt(name, i, RELAX) /\ i + 2 <= Len(name) /\ name[i + 2] \in Digits}

\* the relax numbers a name carries
LiteralNumbers(name) == {int(DigitRun(name, i + 2)) : i \in LiteralPositions(name)}

\* the relax numbers of the files of a directory that match *.relax*
RelaxNumbers(directory) == UNION {LiteralNumbers(f) : f \in glob_relax(directory)}

Max(S) == CHOOSE x \in S : \A y \in S : y <= x

\* ".relax" followed by digits
IsRelaxExtension(x) ==
    /\ Len(x) >= 3
    /\ StartsAt(x, 1, RELAX)
    /\ \A i \in 3..Len(x) : x[i] \in Digits

\* the extension of the highest-numbered relaxation of a directory, "" without one
HighestExt(directory) ==
    IF RelaxNumbers(directory) = {} THEN <<>> ELSE RelaxExt(Max(RelaxNumbers(directory)))

\* the files a call names besides KPOINTS and the POTCAR files
Wanted == {INCAR, OUTCAR, CONTCAR, VASPRUN} \cup Range(additional_vasp_files)

\* the source files that carry the name base with extension ext, plain or gzipped
Sources(base, ext) == {base \o ext, (base \o ext) \o GZ} \cap src_dir

PotcarSources == {POTCAR, POTCAR \o GZ, POTCAR_SPEC, POTCAR_SPEC \o GZ} \cap src_dir

\* the names whose content in the current directory is the call's doing
PutByCall == {n \in DOMAIN cwd : n \notin DOMAIN cwd0 \/ cwd[n] # cwd0[n]}

Finished == pc \in {"done", "raised"}

\* C1: in a directory where some name matches *.relax* and every matching name
\* holds ".relax" followed by digits, get_largest_relax_extension returns
\* ".relax" + N with N the numerically largest relax number of the matching files
C1_LargestRelaxNumber ==
    (/\ Finished
     /\ glob_relax(src_dir) # {}
     /\ \A f \in glob_relax(src_dir) : LiteralNumbers(f) # {})
    => /\ raised = "none"
       /\ IsRelaxExtension(relax_ext)
       /\ int(SubSeq(relax_ext, 3, Len(relax_ext))) = Max(RelaxNumbers(src_dir))

\* C2: get_largest_relax_extension never raises; it returns "" exactly when no
\* name matches *.relax*, and ".relax" followed by digits otherwise
C2_ReturnsStringNeverRaises ==
    Finished =>
       /\ raised = "none"
       /\ (relax_ext = <<>>) <=> (glob_relax(src_dir) = {})
       /\ relax_ext # <<>> => IsRelaxExtension(relax_ext)

----------------------------------------------------------------------------------------------------------------------------------------
(* copy_vasp_outputs *)

\* the name a copied file ends under: without extension and ".gz", and
\* POSCAR for the CONTCAR when contcar_to_poscar is set
Dest(base) == IF base = CONTCAR /\ contcar_to_poscar THEN POSCAR ELSE base

\* a POSCAR copied as an additional file is replaced by the CONTCAR
Replaced(base) == base = POSCAR /\ contcar_to_poscar

\* the files of the relaxation with extension ext that the call names
CurrentSources(ext) == UNION {Sources(base, ext) : base \in Wanted \cup {KPOINTS}}

\* C3 as stated: after a successful call on a source directory with relaxations,
\* each of INCAR, OUTCAR, CONTCAR, vasprun.xml, KPOINTS and the additional files
\* of the highest-numbered relaxation is in the current directory under its plain name with the content
\* of its .relaxN source, nothing of another relaxation was copied, and no file
\* put there by the call has ".relax" in its name
C3_PlainNamesAsStated ==
    (pc = "done" /\ RelaxNumbers(src_dir) # {}) =>
       LET ext == HighestExt(src_dir)
           from == CurrentSources(ext) \cup PotcarSources
       IN  /\ \A base \in Wanted \cup {KPOINTS} :
                 Sources(base, ext) # {} =>
                    base \in DOMAIN cwd /\ cwd[base].data \in Sources(base, ext)
           /\ \A n \in PutByCall : ~Contains(n, RELAX) /\ cwd[n].data \in from

\* C3 amended: as above, except that with contcar_to_poscar the CONTCAR is held
\* under the name POSCAR, where it replaces a POSCAR copied as an additional file
C3_PlainNames ==
    (pc = "done" /\ RelaxNumbers(src_dir) # {}) =>
       LET ext == HighestExt(src_dir)
           from == CurrentSources(ext) \cup PotcarSources
       IN  /\ \A base \in Wanted \cup {KPOINTS} :
                 (Sources(base, ext) # {} /\ ~Replaced(base)) =>
                    Dest(base) \in DOMAIN cwd /\ cwd[Dest(base)].data \in Sources(base, ext)
           /\ \A n \in PutByCall : ~Contains(n, RELAX) /\ cwd[n].data \in from

\* a successful call on a directory that holds relaxations 9 and 10, with a
\* gzipped file and an additional file, into a directory that held files
C3_Witness ==
    /\ pc = "done"
    /\ relax_ext = RelaxExt(10)
    /\ INCAR \o RelaxExt(9) \in src_dir
    /\ (VASPRUN \o RelaxExt(10)) \o GZ \in src_dir
    /\ additional_vasp_files = <<CHGCAR>>
    /\ cwd0 # NoFiles
    /\ CHGCAR \in DOMAIN cwd

\* the names of the source directory's own POSCAR files
PoscarSources == {f \in src_dir : Head(f) = "POSCAR"}

\* C4 as stated: after a successful call with contcar_to_poscar the current
\* directory holds a POSCAR with the content of the source CONTCAR, no CONTCAR,
\* and nothing of the source POSCAR; without it the CONTCAR stays CONTCAR and
\* the call creates no POSCAR
C4_ContcarToPoscarAsStated ==
    pc = "done" =>
       LET contcars == Sources(CONTCAR, HighestExt(src_dir))
       IN  IF contcar_to_poscar
           THEN /\ POSCAR \in DOMAIN cwd
                /\ cwd[POSCAR].data \in contcars
                /\ CONTCAR \notin DOMAIN cwd
                /\ \A n \in DOMAIN cwd : cwd[n].data \notin PoscarSources
           ELSE /\ CONTCAR \in DOMAIN cwd
                /\ cwd[CONTCAR].data \in contcars
                /\ POSCAR \notin PutByCall

\* C4 amended: as above, but without contcar_to_poscar the call creates no
\* POSCAR unless POSCAR is one of additional_vasp_files
C4_ContcarToPoscar ==
    pc = "done" =>
       LET contcars == Sources(CONTCAR, HighestExt(src_dir))
       IN  IF contcar_to_poscar
           THEN /\ POSCAR \in DOMAIN cwd
                /\ cwd[POSCAR].data \in contcars
                /\ CONTCAR \notin DOMAIN cwd
                /\ \A n \in DOMAIN cwd : cwd[n].data \notin PoscarSources
           ELSE /\ CONTCAR \in DOMAIN cwd
                /\ cwd[CONTCAR].data \in contcars
                /\ POSCAR \notin Range(additional_vasp_files) => POSCAR \notin PutByCall

\* a successful call with contcar_to_poscar into a directory that held a POSCAR
\* and a CONTCAR, from a source with relaxations that has POSCAR files of its
\* own, one of them asked for as an additional file
C4_Witness ==
    /\ pc = "done"
    /\ contcar_to_poscar
    /\ POSCAR \in DOMAIN cwd0
    /\ CONTCAR \in DOMAIN cwd0
    /\ POSCAR \o relax_ext \in src_dir
    /\ additional_vasp_files = <<POSCAR>>
    /\ relax_ext # <<>>

\* C5: when the source directory has neither POTCAR nor POTCAR.spec, plain or
\* gzipped, the call raises FileNotFoundError and the current directory is
\* never touched
C5_NoPotcarRaisesBeforeCopy ==
    PotcarSources = {} =>
       /\ pc # "done"
       /\ cwd = cwd0
       /\ pc = "raised" => raised = "FileNotFoundError"

\* C6's case: everything but KPOINTS is there for the relaxation with extension ext
C6_Case(ext) ==
    /\ PotcarSources # {}
    /\ Sources(KPOINTS, ext) = {}
    /\ \A base \in Wanted : Sources(base, ext) # {}

\* C6: in that case the call does not fail, and when it is done the files that
\* are present are copied and the call has created no KPOINTS
C6_MissingKpointsIsNoFailure ==
    Finished =>
       LET ext == HighestExt(src_dir)
       IN  C6_Case(ext) =>
              /\ pc = "done"
              /\ KPOINTS \notin PutByCall
              /\ \A base \in Wanted :
                    ~Replaced(base) =>
                       Dest(base) \in DOMAIN cwd /\ cwd[Dest(base)].data \in Sources(base, ext)

----------------------------------------------------------------------------
(* write_vasp_input_set *)

\* the position of the last "." of a string that holds one
LastDot(x) == Max({i \in 1..Len(x) : x[i] = "."})

\* the module path and class name C8 gives for an input_set string
NamedModule(x) == IF Contains(x, DOT) THEN SubSeq(x, 1, LastDot(x) - 1) ELSE PYMATGEN_SETS

NamedClass(x) == IF Contains(x, DOT) THEN SubSeq(x, LastDot(x) + 1, Len(x)) ELSE x

Resolvable(x) == NamedModule(x) \in Importable /\ NamedClass(x) \in Attributes(NamedModule(x))

\* C8: the class is looked up in pymatgen.io.vasp.sets for a string without ".",
\* else in the module before the last "."; when the module cannot be imported
\* or lacks the attribute the call raises ImportError, having built no input set
\* and called no write_input; otherwise that class is the one used
C8_UnresolvableRaisesImportError ==
    Finished =>
       IF Resolvable(wargs.given.input_set)
       THEN /\ pc = "done"
            /\ vis_cls = <<[module |-> NamedModule(wargs.given.input_set),
                            name |-> NamedClass(wargs.given.input_set)]>>
       ELSE /\ raised = "ImportError"
            /\ calls = <<>>

\* the class the call resolved
TheClass == [module |-> NamedModule(wargs.given.input_set), name |-> NamedClass(wargs.given.input_set)]

Given(kwargs) == IF kwargs = <<>> THEN {} ELSE kwargs[1]

ViaFromPrev == wargs.from_prev /\ hasattr_from_prev(TheClass)

----------------------------------------------------------------------------
(* fake_run_vasp *)

\* the steps a call performs when nothing raises, in the order C10 gives
Planned ==
    SelectSeq(<<"incar", "kpoints", "poscar", "potcar", "clear", "copy">>,
              LAMBDA x : \/ x \in fargs.check_inputs
                         \/ x = "clear" /\ fargs.clear_inputs
                         \/ x = "copy")

IsPrefix(x, y) == Len(x) <= Len(y) /\ SubSeq(y, 1, Len(x)) = x

RegularOutputs == {o.name : o \in {e \in fargs.outputs : e.is_file}}

\* C10: the steps are performed in the order checks (those selected), clear
\* (if asked), copy; a call that raises has raised ValueError or
\* FileNotFoundError from a selected check and has neither deleted nor copied
\* a file; a call that returns has copied every regular file of the outputs
C10_ValidateClearCopy ==
    /\ IsPrefix(steps, Planned)
    /\ pc = "raised" =>
          /\ cwd = cwd0
          /\ raised \in {"ValueError", "FileNotFoundError"}
          /\ steps # <<>>
          /\ steps[Len(steps)] \in fargs.check_inputs
    /\ pc = "done" =>
          /\ steps = Planned
          /\ \A n \in RegularOutputs : n \in DOMAIN cwd /\ cwd[n] = RefOutput(n)
          /\ \A n \in DOMAIN cwd \ RegularOutputs :
                /\ n \in DOMAIN cwd0 /\ cwd[n] = cwd0[n]
                /\ fargs.clear_inputs => n \notin cleared_files
          /\ \A n \in DOMAIN cwd0 :
                (fargs.clear_inputs => n \notin cleared_files) => n \in DOMAIN cwd

\* a call with clear_inputs whose last selected check, the POTCAR one, raised
\* with files in the current directory that clearing would have deleted
C10_Witness ==
    /\ pc = "raised"
    /\ fargs.clear_inputs
    /\ fargs.check_inputs = vfiles
    /\ steps = <<"incar", "kpoints", "poscar", "potcar">>
    /\ raised = "FileNotFoundError"
    /\ INCAR \in DOMAIN cwd

====
